---- MODULE Spec2Model ----
(***************************************************************************)
(* Model of dominion/tasks.py: the build task.  build() forks a child on a *)
(* fresh pty; the child stops itself and, once continued, replaces itself  *)
(* with the external builder.  The parent starts the descriptor handoff    *)
(* thread (_pass_fd), prepares the workspace, writes markers to the pty    *)
(* master, continues the child, reaps it, removes the workspace and        *)
(* reports the outcome.                                                    *)
(***************************************************************************)
EXTENDS Integers, Sequences, FiniteSets, TLC

\* ------------------------------------------------------------------ bounds
\* The builder's exit codes range over 0..MaxExitCode.
MaxExitCode == 2
\* image['users'] holds at most MaxUsers entries.
MaxUsers == 2

\* ------------------------------------------------------ program constants
SIGKILL == 9
SIGCONT == 18
SIGSTOP == 19

\* The byte strings the supervisor writes to the pty master.
BANNER == "Start building...\n"
MAGIC_PHRASE == "Let's wind up"
FAILED_LINE == "Build process failed\n"

ExitCodes == 0..MaxExitCode
\* Signals that end the running builder from outside the supervisor.
OutsideSignals == {SIGKILL}

VARIABLES
    pc,          \* the parent's position in build()
    child,       \* the forked child: forked, stopped, resumed, running, zombie, reaped
    status,      \* the child's wait status once it has terminated, else -1
    term,        \* how the child terminated: <<"exit", code>>, <<"signal", n>>, else <<>>
    thread,      \* the _pass_fd thread: unstarted, connecting, sleeping, connected, finished
    listening,   \* whether a consumer listens on the rendezvous socket /tmp/<build_id>
    fdsSent,     \* how many times send_fds passed the pty master descriptor
    dir,         \* target_dir: absent, preexisting (there before the job), created
    copied,      \* content of intermediate_dir put there by cp -r: none, partial, full
    writable,    \* whether the workspace lets target_dir be created
    userExists,  \* whether User.objects.get(id=user_id) finds the user
    emailOn,     \* user.userprofile.email_notifications
    hasTarget,   \* whether image['target'] is a non-empty mapping
    mkdirRes,    \* outcome of os.makedirs(target_dir): none, ok, failed
    cpStarted,   \* whether the cp -r subprocess has been spawned
    cpRc,        \* return code of cp -r, -1 before it has exited
    sent,        \* signals the parent has sent to the child, in order
    ptyw,        \* what the parent has written to the pty master, in order
    execPrep,    \* at the child's execvpe: <<mkdirRes, cpRc, copied>>, else <<>>
    env,         \* the environment the child passed to os.execvpe, empty before
    packages_list,  \* image['selected_packages'], None already replaced by []
    root_password,  \* image['root_password'], "" when there is none
    users,          \* image['users']: a sequence of [username, password]
    device,         \* image['target']['device'] (read only when hasTarget)
    configuration,  \* image['configuration']: a mapping from keys to values
    retcode,     \* the value of os.waitpid's status, -1 before the wait returns
    rmtreeRes,   \* outcome of shutil.rmtree(target_dir): none, ok, failed
    classified,  \* branch taken at `if retcode == 0`: NONE, SUCCEEDED, FAILED
    subject,     \* the subject chosen, "" when none
    firmware,    \* number of Firmware records saved
    emails,      \* subjects of the notifications sent by user.email_user
    reports,     \* subjects of the calls of _send_email_notification
    returned     \* the value build returned, -1 before it returns

vars == <<pc, child, status, term, thread, listening, fdsSent, dir, copied, writable,
          userExists, emailOn, hasTarget, mkdirRes, cpStarted, cpRc, sent,
          ptyw, execPrep, retcode, rmtreeRes, classified, subject, firmware,
          emails, returned, env, reports, packages_list, root_password, users,
          device, configuration>>

\* Variables of the job: everything but the handoff thread and its consumer.
jobVars == <<pc, child, status, term, dir, copied, writable, userExists, emailOn,
             hasTarget, mkdirRes, cpStarted, cpRc, sent, ptyw, execPrep,
             retcode, rmtreeRes, classified, subject, firmware, emails,
             returned, env, reports, packages_list, root_password, users,
             device, configuration>>

parentVars == <<pc, dir, copied, mkdirRes, cpStarted, cpRc, sent, ptyw,
                retcode, rmtreeRes, classified, subject, firmware, emails,
                reports, returned>>

threadVars == <<thread, fdsSent>>

inputVars == <<writable, userExists, emailOn, hasTarget, packages_list,
               root_password, users, device, configuration>>

\* ------------------------------------------------------------ pure helpers

\* Faulty variant of WaitStatus: the exit code alone, the signal dropped.
WaitStatusExitOnly(code, sig) == code

\* The 16-bit status os.waitpid reports: the exit code in the high byte, the
\* number of the terminating signal in the low byte.
WaitStatus(code, sig) == (code * 256 + sig) % 65536

\* The child's state after the kernel generates signal sig for it.  SIGKILL
\* ends any live process, stopped or not; SIGCONT resumes a stopped process
\* and is a no-op for one that is not stopped; neither affects a zombie.
SignalChild(c, sig) ==
    IF c \in {"zombie", "reaped"} THEN c
    ELSE IF sig = SIGKILL THEN "zombie"
    ELSE IF sig = SIGCONT /\ c = "stopped" THEN "resumed"
    ELSE c

SignalStatus(c, st, sig) ==
    IF c \notin {"zombie", "reaped"} /\ sig = SIGKILL
    THEN WaitStatus(0, SIGKILL)
    ELSE st

SignalTerm(c, t, sig) ==
    IF c \notin {"zombie", "reaped"} /\ sig = SIGKILL
    THEN <<"signal", SIGKILL>>
    ELSE t

\* os.kill(pid, sig) in the parent.
Kill(sig) ==
    /\ child' = SignalChild(child, sig)
    /\ status' = SignalStatus(child, status, sig)
    /\ term' = SignalTerm(child, term, sig)
    /\ sent' = Append(sent, sig)

\* ------------------------------------------- the builder's environment

\* Values of the job that end up in the environment.
OsPath == "/usr/bin"
workspace == "/tmp/dominion"
build_id == "abc123"
builder_location == "./rpi2-gen-image"
target_dir == workspace \o "/" \o build_id
intermediate_dir == target_dir \o "/" \o "intermediate"

\* image['target']['distro'] and the subjects build makes of it.
distro == "TestOS"
SuccessSubject == distro \o " has built!"
FailureSubject == distro \o " build has failed!"

\* The configuration keys build lets through.
allowed ==
    {"HOSTNAME", "DEFLOCAL", "TIMEZONE", "ENABLE_REDUCE", "REDUCE_APT",
     "REDUCE_DOC", "REDUCE_MAN", "REDUCE_VIM", "REDUCE_BASH", "REDUCE_HWDB",
     "REDUCE_SSHD", "REDUCE_LOCALE"}

\* ','.join(packages_list)
RECURSIVE Join(_)
Join(seq) ==
    IF Len(seq) = 0 THEN ""
    ELSE IF Len(seq) = 1 THEN seq[1]
    ELSE seq[1] \o "," \o Join(Tail(seq))

\* dict.update: the entries of u replace or extend those of e.
Update(e, u) ==
    [k \in DOMAIN e \cup DOMAIN u |-> IF k \in DOMAIN u THEN u[k] ELSE e[k]]

\* env[k] = v
SetItem(e, k, v) == Update(e, [x \in {k} |-> v])

\* The dict literal of the fixed keys.
FixedEnv ==
    [k \in {"PATH", "BASEDIR", "CHROOT_SOURCE", "IMAGE_NAME", "WORKSPACE_DIR",
            "BUILD_ID", "RPI2_BUILDER_LOCATION", "APT_INCLUDES"} |->
        CASE k = "PATH" -> OsPath
          [] k = "BASEDIR" -> target_dir
          [] k = "CHROOT_SOURCE" -> intermediate_dir
          [] k = "IMAGE_NAME" -> target_dir
          [] k = "WORKSPACE_DIR" -> workspace
          [] k = "BUILD_ID" -> build_id
          [] k = "RPI2_BUILDER_LOCATION" -> builder_location
          [] k = "APT_INCLUDES" -> Join(packages_list)]

\* Faulty variant of WithRoot: the password under another key.
WithRootMisnamed(e) ==
    IF root_password # ""
    THEN SetItem(SetItem(e, "ENABLE_ROOT", "true"), "ROOT_PASSWORD", root_password)
    ELSE e

\* if root_password: ENABLE_ROOT, PASSWORD
WithRoot(e) ==
    IF root_password # ""
    THEN SetItem(SetItem(e, "ENABLE_ROOT", "true"), "PASSWORD", root_password)
    ELSE e

\* if target: RPI_MODEL is '3' for 'Raspberry Pi 3', else '2'
WithModel(e) ==
    IF hasTarget
    THEN SetItem(e, "RPI_MODEL", IF device = "Raspberry Pi 3" THEN "3" ELSE "2")
    ELSE e

\* Faulty variant of SelectUser: the last entry instead of the first.
SelectLastUser(us) == us[Len(us)]

\* user = users[0]
SelectUser(us) == us[1]

\* if users: ENABLE_USER, USER_NAME, USER_PASSWORD of the selected user
WithUser(e) ==
    IF Len(users) > 0
    THEN SetItem(SetItem(SetItem(e, "ENABLE_USER", "true"),
                         "USER_NAME", SelectUser(users).username),
                 "USER_PASSWORD", SelectUser(users).password)
    ELSE e

\* Faulty variant of FilterConfiguration: every caller key is let through.
FilterNothing(c) == c

\* {k: v for k, v in configuration.items() if k in allowed}
FilterConfiguration(c) == [k \in {x \in DOMAIN c : x \in allowed} |-> c[k]]

\* if configuration: env.update(the filtered configuration)
WithConfiguration(e) ==
    IF DOMAIN configuration # {}
    THEN Update(e, FilterConfiguration(configuration))
    ELSE e

\* The env the child hands to os.execvpe.
BuildEnv == WithConfiguration(WithUser(WithModel(WithRoot(FixedEnv))))

\* ----------------------------------------------------------------- inputs

EmptyMap == [k \in {} |-> ""]
UserPool ==
    {[username |-> "bob", password |-> "y"],
     [username |-> "eve", password |-> "z"]}
UserLists == UNION {[1..n -> UserPool] : n \in 0..MaxUsers}
Devices == {"Raspberry Pi 2", "Raspberry Pi 3"}
\* Keys a caller may put into the configuration: allow-listed ones, one
\* that is not, and ones that collide with fixed and conditional keys.
CfgKeys == {"HOSTNAME", "TIMEZONE", "EVIL_KEY", "PATH", "USER_NAME"}
CfgValues == {"cfg1", "cfg2"}
Configurations == UNION {[ks -> CfgValues] : ks \in SUBSET CfgKeys}

\* The images the whole job is run with.
JobImages ==
    {[packages_list |-> <<"vim">>, root_password |-> "x",
      users |-> <<[username |-> "bob", password |-> "y"]>>,
      device |-> "Raspberry Pi 3",
      configuration |-> [k \in {"HOSTNAME", "EVIL_KEY"} |->
                            IF k = "HOSTNAME" THEN "cfg1" ELSE "cfg2"]],
     [packages_list |-> <<>>, root_password |-> "",
      users |-> <<>>,
      device |-> "Raspberry Pi 2",
      configuration |-> EmptyMap]}

\* ------------------------------------------------------------------- Init
Init ==
    /\ pc = "start"
    /\ child = "forked"
    /\ status = -1
    /\ term = <<>>
    /\ thread = "unstarted"
    /\ listening \in BOOLEAN
    /\ fdsSent = 0
    /\ dir \in {"absent", "preexisting"}
    /\ copied = "none"
    /\ writable \in BOOLEAN
    /\ userExists \in BOOLEAN
    /\ emailOn \in BOOLEAN
    /\ hasTarget \in BOOLEAN
    /\ \E img \in JobImages :
          /\ packages_list = img.packages_list
          /\ root_password = img.root_password
          /\ users = img.users
          /\ device = img.device
          /\ configuration = img.configuration
    /\ mkdirRes = "none"
    /\ cpStarted = FALSE
    /\ cpRc = -1
    /\ sent = <<>>
    /\ ptyw = <<>>
    /\ execPrep = <<>>
    /\ env = EmptyMap
    /\ retcode = -1
    /\ rmtreeRes = "none"
    /\ classified = "NONE"
    /\ subject = ""
    /\ firmware = 0
    /\ emails = <<>>
    /\ reports = <<>>
    /\ returned = -1

\* The child has been continued after a successful preparation and is about
\* to build its environment, for any image.
EnvInit ==
    /\ pc = "waitpid"
    /\ child = "resumed"
    /\ status = -1
    /\ term = <<>>
    /\ thread = "connecting"
    /\ listening = FALSE
    /\ fdsSent = 0
    /\ dir = "created"
    /\ copied = "full"
    /\ writable = TRUE
    /\ userExists = TRUE
    /\ emailOn = TRUE
    /\ hasTarget \in BOOLEAN
    /\ packages_list \in {<<>>, <<"vim">>, <<"vim", "git">>}
    /\ root_password \in {"", "x"}
    /\ users \in UserLists
    /\ device \in Devices
    /\ configuration \in Configurations
    /\ mkdirRes = "ok"
    /\ cpStarted = TRUE
    /\ cpRc = 0
    /\ sent = <<SIGCONT>>
    /\ ptyw = <<BANNER>>
    /\ execPrep = <<>>
    /\ env = EmptyMap
    /\ retcode = -1
    /\ rmtreeRes = "none"
    /\ classified = "NONE"
    /\ subject = ""
    /\ firmware = 0
    /\ emails = <<>>
    /\ reports = <<>>
    /\ returned = -1

\* ------------------------------------------------------------- the child

\* Faulty variant of ChildSelfStop: the child does not suspend itself.
ChildSelfStopSkipped ==
    /\ child = "forked"
    /\ child' = "resumed"
    /\ UNCHANGED <<status, term, execPrep, env>>
    /\ UNCHANGED <<parentVars, threadVars, listening, inputVars>>

\* os.kill(os.getpid(), signal.SIGSTOP): the child suspends itself.
ChildSelfStop ==
    /\ child = "forked"
    /\ child' = "stopped"
    /\ UNCHANGED <<status, term, execPrep, env>>
    /\ UNCHANGED <<parentVars, threadVars, listening, inputVars>>

\* Past the stop point: the child builds env and calls os.execvpe; the
\* builder starts and reads intermediate_dir.
ChildExec ==
    /\ child = "resumed"
    /\ child' = "running"
    /\ execPrep' = <<mkdirRes, cpRc, copied>>
    /\ env' = BuildEnv
    /\ UNCHANGED <<status, term>>
    /\ UNCHANGED <<parentVars, threadVars, listening, inputVars>>

\* The builder (or a failed execvpe) ends with an exit code.
ChildExit ==
    /\ child = "running"
    /\ \E code \in ExitCodes :
          /\ status' = WaitStatus(code, 0)
          /\ term' = <<"exit", code>>
    /\ child' = "zombie"
    /\ UNCHANGED <<execPrep, env>>
    /\ UNCHANGED <<parentVars, threadVars, listening, inputVars>>

\* The running builder is ended by a signal sent from outside the job.
ChildSignalled ==
    /\ child = "running"
    /\ \E sig \in OutsideSignals :
          /\ status' = WaitStatus(0, sig)
          /\ term' = <<"signal", sig>>
    /\ child' = "zombie"
    /\ UNCHANGED <<execPrep, env>>
    /\ UNCHANGED <<parentVars, threadVars, listening, inputVars>>

Child == ChildSelfStop \/ ChildExec \/ ChildExit \/ ChildSignalled

\* ------------------------------------------------------------ the parent

\* socket_name, sock, threading.Thread(target=_pass_fd).start()
ThreadStart ==
    /\ pc = "start"
    /\ pc' = "makedirs"
    /\ thread' = "connecting"
    /\ UNCHANGED <<child, status, term, execPrep, env, fdsSent, listening, inputVars>>
    /\ UNCHANGED <<dir, copied, mkdirRes, cpStarted, cpRc, sent, ptyw, retcode,
                   rmtreeRes, classified, subject, firmware, emails, reports, returned>>

\* Faulty variant of Makedirs: the parent joins the handoff thread first.
MakedirsAfterJoin ==
    /\ pc = "makedirs"
    /\ thread = "finished"
    /\ pc' = "popen"
    /\ dir' = "created"
    /\ mkdirRes' = "ok"
    /\ UNCHANGED <<child, status, term, sent>>
    /\ UNCHANGED <<copied, cpStarted, cpRc, ptyw, retcode, rmtreeRes,
                   classified, subject, firmware, emails, reports, returned>>
    /\ UNCHANGED <<execPrep, env, threadVars, listening, inputVars>>

\* try: os.makedirs(target_dir) / except OSError: os.kill(pid, SIGKILL).
\* Execution falls through to the copy either way.
Makedirs ==
    /\ pc = "makedirs"
    /\ pc' = "popen"
    /\ IF dir = "absent" /\ writable
       THEN /\ dir' = "created"
            /\ mkdirRes' = "ok"
            /\ UNCHANGED <<child, status, term, sent>>
       ELSE /\ mkdirRes' = "failed"
            /\ Kill(SIGKILL)
            /\ UNCHANGED dir
    /\ UNCHANGED <<copied, cpStarted, cpRc, ptyw, retcode, rmtreeRes,
                   classified, subject, firmware, emails, reports, returned>>
    /\ UNCHANGED <<execPrep, env, threadVars, listening, inputVars>>

\* proc = subprocess.Popen(['cp', '-r', base_system, intermediate_dir])
Popen ==
    /\ pc = "popen"
    /\ pc' = "cpwait"
    /\ cpStarted' = TRUE
    /\ copied' = IF dir = "absent" THEN copied ELSE "partial"
    /\ UNCHANGED <<dir, mkdirRes, cpRc, sent, ptyw, retcode, rmtreeRes,
                   classified, subject, firmware, emails, reports, returned>>
    /\ UNCHANGED <<child, status, term, execPrep, env, threadVars, listening, inputVars>>

\* if proc.wait() != 0: os.kill(pid, SIGKILL).  cp cannot succeed without
\* target_dir; with it, it may still fail (missing base system, full disk).
CpWait ==
    /\ pc = "cpwait"
    /\ pc' = "banner"
    /\ \E rc \in (IF dir = "absent" THEN {1} ELSE {0, 1}) :
          /\ cpRc' = rc
          /\ IF rc # 0
             THEN /\ Kill(SIGKILL)
                  /\ UNCHANGED copied
             ELSE /\ copied' = "full"
                  /\ UNCHANGED <<child, status, term, sent>>
    /\ UNCHANGED <<dir, mkdirRes, cpStarted, ptyw, retcode, rmtreeRes,
                   classified, subject, firmware, emails, reports, returned>>
    /\ UNCHANGED <<execPrep, env, threadVars, listening, inputVars>>

\* os.write(fd, b'Start building...\n')
Banner ==
    /\ pc = "banner"
    /\ pc' = "sigcont"
    /\ ptyw' = Append(ptyw, BANNER)
    /\ UNCHANGED <<dir, copied, mkdirRes, cpStarted, cpRc, sent, retcode,
                   rmtreeRes, classified, subject, firmware, emails, reports, returned>>
    /\ UNCHANGED <<child, status, term, execPrep, env, threadVars, listening, inputVars>>

\* os.kill(pid, signal.SIGCONT)  # resume child process
SendCont ==
    /\ pc = "sigcont"
    /\ pc' = "waitpid"
    /\ Kill(SIGCONT)
    /\ UNCHANGED <<dir, copied, mkdirRes, cpStarted, cpRc, ptyw, retcode,
                   rmtreeRes, classified, subject, firmware, emails, reports, returned>>
    /\ UNCHANGED <<execPrep, env, threadVars, listening, inputVars>>

\* _, retcode = os.waitpid(pid, 0): blocks until the child has terminated.
Waitpid ==
    /\ pc = "waitpid"
    /\ child = "zombie"
    /\ pc' = "rmtree"
    /\ retcode' = status
    /\ child' = "reaped"
    /\ UNCHANGED <<dir, copied, mkdirRes, cpStarted, cpRc, sent, ptyw,
                   rmtreeRes, classified, subject, firmware, emails, reports, returned>>
    /\ UNCHANGED <<status, term, execPrep, env, threadVars, listening, inputVars>>

\* Faulty variant of Rmtree: errors ignored, nothing removed.
RmtreeKeepsDir ==
    /\ pc = "rmtree"
    /\ pc' = "sentinel"
    /\ rmtreeRes' = "ok"
    /\ UNCHANGED <<dir, copied>>
    /\ UNCHANGED <<mkdirRes, cpStarted, cpRc, sent, ptyw, retcode,
                   classified, subject, firmware, emails, reports, returned>>
    /\ UNCHANGED <<child, status, term, execPrep, env, threadVars, listening, inputVars>>

\* shutil.rmtree(target_dir): raises when target_dir is absent or cannot be
\* removed entirely; the exception leaves build.
Rmtree ==
    /\ pc = "rmtree"
    /\ \E ok \in (IF dir = "absent" THEN {FALSE} ELSE BOOLEAN) :
          IF ok
          THEN /\ pc' = "sentinel"
               /\ rmtreeRes' = "ok"
               /\ dir' = "absent"
               /\ copied' = "none"
          ELSE /\ pc' = "raised"
               /\ rmtreeRes' = "failed"
               /\ UNCHANGED <<dir, copied>>
    /\ UNCHANGED <<mkdirRes, cpStarted, cpRc, sent, ptyw, retcode,
                   classified, subject, firmware, emails, reports, returned>>
    /\ UNCHANGED <<child, status, term, execPrep, env, threadVars, listening, inputVars>>

\* os.write(fd, MAGIC_PHRASE)
Sentinel ==
    /\ pc = "sentinel"
    /\ pc' = "classify"
    /\ ptyw' = Append(ptyw, MAGIC_PHRASE)
    /\ UNCHANGED <<dir, copied, mkdirRes, cpStarted, cpRc, sent, retcode,
                   rmtreeRes, classified, subject, firmware, emails, reports, returned>>
    /\ UNCHANGED <<child, status, term, execPrep, env, threadVars, listening, inputVars>>

\* Faulty variant of Classify: a missing user (User.DoesNotExist) leaves build.
ClassifyLookupFatal ==
    /\ pc = "classify"
    /\ IF retcode = 0
       THEN /\ classified' = "SUCCEEDED"
            /\ UNCHANGED ptyw
            /\ IF userExists
               THEN /\ firmware' = firmware + 1
                    /\ IF hasTarget
                       THEN subject' = SuccessSubject /\ pc' = "notify"
                       ELSE UNCHANGED subject /\ pc' = "raised"
               ELSE /\ pc' = "raised"
                    /\ UNCHANGED <<firmware, subject>>
       ELSE /\ classified' = "FAILED"
            /\ ptyw' = Append(ptyw, FAILED_LINE)
            /\ UNCHANGED firmware
            /\ IF hasTarget
               THEN subject' = FailureSubject /\ pc' = "notify"
               ELSE UNCHANGED subject /\ pc' = "raised"
    /\ UNCHANGED <<dir, copied, mkdirRes, cpStarted, cpRc, sent, retcode,
                   rmtreeRes, emails, reports, returned>>
    /\ UNCHANGED <<child, status, term, execPrep, env, threadVars, listening, inputVars>>

\* Faulty variant of Classify: the two subjects exchanged.
ClassifySwappedSubjects ==
    /\ pc = "classify"
    /\ IF retcode = 0
       THEN /\ classified' = "SUCCEEDED"
            /\ UNCHANGED ptyw
            /\ IF userExists
               THEN /\ firmware' = firmware + 1
                    /\ IF hasTarget
                       THEN subject' = FailureSubject /\ pc' = "notify"
                       ELSE UNCHANGED subject /\ pc' = "raised"
               ELSE /\ pc' = "notify"
                    /\ UNCHANGED <<firmware, subject>>
       ELSE /\ classified' = "FAILED"
            /\ ptyw' = Append(ptyw, FAILED_LINE)
            /\ UNCHANGED firmware
            /\ IF hasTarget
               THEN subject' = SuccessSubject /\ pc' = "notify"
               ELSE UNCHANGED subject /\ pc' = "raised"
    /\ UNCHANGED <<dir, copied, mkdirRes, cpStarted, cpRc, sent, retcode,
                   rmtreeRes, emails, reports, returned>>
    /\ UNCHANGED <<child, status, term, execPrep, env, threadVars, listening, inputVars>>

\* if retcode == 0: ... else: ...   image['target']['distro'] raises when
\* the image has no target.
Classify ==
    /\ pc = "classify"
    /\ IF retcode = 0
       THEN /\ classified' = "SUCCEEDED"
            /\ UNCHANGED ptyw
            /\ IF userExists
               THEN /\ firmware' = firmware + 1
                    /\ IF hasTarget
                       THEN subject' = SuccessSubject /\ pc' = "notify"
                       ELSE UNCHANGED subject /\ pc' = "raised"
               ELSE /\ pc' = "notify"
                    /\ UNCHANGED <<firmware, subject>>
       ELSE /\ classified' = "FAILED"
            /\ ptyw' = Append(ptyw, FAILED_LINE)
            /\ UNCHANGED firmware
            /\ IF hasTarget
               THEN subject' = FailureSubject /\ pc' = "notify"
               ELSE UNCHANGED subject /\ pc' = "raised"
    /\ UNCHANGED <<dir, copied, mkdirRes, cpStarted, cpRc, sent, retcode,
                   rmtreeRes, emails, reports, returned>>
    /\ UNCHANGED <<child, status, term, execPrep, env, threadVars, listening, inputVars>>

\* if subject and message: _send_email_notification(...); return retcode
Notify ==
    /\ pc = "notify"
    /\ pc' = "done"
    /\ reports' = IF subject # "" THEN Append(reports, subject) ELSE reports
    /\ emails' = IF subject # "" /\ userExists /\ emailOn
                 THEN Append(emails, subject)
                 ELSE emails
    /\ returned' = retcode
    /\ UNCHANGED <<dir, copied, mkdirRes, cpStarted, cpRc, sent, ptyw, retcode,
                   rmtreeRes, classified, subject, firmware>>
    /\ UNCHANGED <<child, status, term, execPrep, env, threadVars, listening, inputVars>>

Parent ==
    \/ ThreadStart \/ Makedirs \/ Popen \/ CpWait \/ Banner \/ SendCont
    \/ Waitpid \/ Rmtree \/ Sentinel \/ Classify \/ Notify

\* ------------------------------------------------- the handoff thread

\* Faulty variant of PassFdConnect: a failed connect leaves the loop too.
PassFdConnectNoRetry ==
    /\ thread = "connecting"
    /\ thread' = "connected"
    /\ UNCHANGED <<fdsSent, listening, child, status, term,
                   execPrep, env, parentVars,
                   inputVars>>

\* sock.connect(socket_name): succeeds when a consumer listens, otherwise
\* raises OSError (ENOENT, ECONNREFUSED).
PassFdConnect ==
    /\ thread = "connecting"
    /\ thread' = IF listening THEN "connected" ELSE "sleeping"
    /\ UNCHANGED <<fdsSent, listening, child, status, term,
                   execPrep, env, parentVars,
                   inputVars>>

\* time.sleep(1); continue
PassFdSleep ==
    /\ thread = "sleeping"
    /\ thread' = "connecting"
    /\ UNCHANGED <<fdsSent, listening, child, status, term,
                   execPrep, env, parentVars,
                   inputVars>>

\* dominion.util.send_fds(sock, fd), then the thread ends.
PassFdSend ==
    /\ thread = "connected"
    /\ thread' = "finished"
    /\ fdsSent' = fdsSent + 1
    /\ UNCHANGED <<listening, child, status, term,
                   execPrep, env, parentVars, inputVars>>

PassFd == PassFdConnect \/ PassFdSleep \/ PassFdSend

\* A consumer starts or stops listening on the rendezvous socket.
ConsumerToggle ==
    /\ listening' = ~listening
    /\ UNCHANGED <<threadVars, child, status, term, execPrep, env, parentVars,
                   inputVars>>

\* ---------------------------------------------------------- specification
Next == Parent \/ Child \/ PassFd \/ ConsumerToggle

Spec == Init /\ [][Next]_vars

\* The construction of the builder's environment alone, over all images.
EnvSpec == EnvInit /\ [][ChildExec]_vars

\* The scheduler runs every process and thread that can run, and the builder
\* ends once it runs.
FairSpec ==
    /\ Spec
    /\ WF_vars(Parent)
    /\ WF_vars(Child)
    /\ WF_vars(PassFd)

\* ---------------------------------------------------------------- claims

InSeq(seq, x) == \E i \in DOMAIN seq : seq[i] = x
Count(seq, x) == Cardinality({i \in DOMAIN seq : seq[i] = x})

\* Workspace preparation has completed: makedirs has returned (or raised)
\* and the cp -r subprocess has exited.
PrepCompleted == mkdirRes # "none" /\ cpRc # -1
\* Workspace preparation failed.
PrepFailed == mkdirRes = "failed" \/ cpRc > 0

\* C1: the child never passes its stop point and executes the builder before
\* os.makedirs has returned and the cp -r subprocess has exited, and SIGCONT
\* is only ever sent after the copy's exit.
C1_NoExecBeforePrep ==
    /\ child \in {"resumed", "running"} => PrepCompleted
    /\ execPrep # <<>> => (execPrep[1] # "none" /\ execPrep[2] # -1)
    /\ InSeq(sent, SIGCONT) => PrepCompleted

\* The builder runs, released by a SIGCONT that followed the copy.
C1_Witness ==
    /\ child = "running"
    /\ execPrep = <<"ok", 0, "full">>
    /\ InSeq(sent, SIGCONT)

\* C2: when workspace preparation failed the supervisor has sent SIGKILL and
\* never sends SIGCONT to the child.
C2_NoContAfterPrepFailure ==
    PrepFailed => (InSeq(sent, SIGKILL) /\ ~InSeq(sent, SIGCONT))

\* C3: the sentinel is written to the pty master exactly once per finished
\* job and nothing is written after it.
C3_SentinelOnceAndLast ==
    /\ Count(ptyw, MAGIC_PHRASE) <= 1
    /\ InSeq(ptyw, MAGIC_PHRASE) => ptyw[Len(ptyw)] = MAGIC_PHRASE
    /\ pc = "done" => Count(ptyw, MAGIC_PHRASE) = 1

\* C4: a job that ran to completion wrote the banner, then exactly one
\* outcome marker (a success marker for status 0, the failure line
\* otherwise), then the sentinel.
C4_BannerMarkerSentinel ==
    pc = "done" =>
        /\ Len(ptyw) = 3
        /\ ptyw[1] = BANNER
        /\ ptyw[3] = MAGIC_PHRASE
        /\ retcode # 0 => ptyw[2] = FAILED_LINE
        /\ retcode = 0 => ptyw[2] \notin {BANNER, FAILED_LINE, MAGIC_PHRASE}

\* C5: under fair scheduling, with a builder that ends once it runs, the
\* supervisor eventually leaves CREATED, WORKSPACE_READY and RUNNING:
\* os.waitpid returns.
C5_EventuallyReaped == <>(retcode # -1)

\* C6: whenever build has returned target_dir does not exist, and the
\* removal is attempted only once the child has been reaped.
C6_WorkspaceGoneOnReturn ==
    /\ pc = "done" => dir = "absent"
    /\ rmtreeRes # "none" => child = "reaped"

\* build has returned on a path where workspace preparation failed.
C6_Witness ==
    /\ pc = "done"
    /\ PrepFailed
    /\ rmtreeRes = "ok"
    /\ dir = "absent"

\* C7: a failing shutil.rmtree does not fail the job: the supervisor goes on
\* to the sentinel, the classification and the return.
C7_CleanupFailureNotFatal ==
    rmtreeRes = "failed" => pc \in {"sentinel", "classify", "notify", "done"}

C9_FatalShortCircuits ==
    /\ mkdirRes = "failed" => ~cpStarted
    /\ (PrepFailed /\ pc = "done") =>
          (returned # 0 /\ classified = "FAILED" /\ dir = "absent")

\* C10: the code build returns is 0 exactly when the child exited with
\* status 0; a nonzero exit status or a terminating signal gives a nonzero
\* code and the FAILED branch.
C10_ZeroIffExitZero ==
    /\ pc = "done" => (returned = 0 <=> term = <<"exit", 0>>)
    /\ classified # "NONE" =>
          classified = (IF term = <<"exit", 0>> THEN "SUCCEEDED" ELSE "FAILED")

\* build has returned after the supervisor's own SIGKILL ended the child.
C10_Witness ==
    /\ pc = "done"
    /\ term = <<"signal", SIGKILL>>
    /\ InSeq(sent, SIGKILL)
    /\ returned # 0
    /\ classified = "FAILED"

\* The child has built its environment and called os.execvpe.
Executed == execPrep # <<>>

\* The keys of the environment contract.
CodeFixedKeys ==
    {"PATH", "BASEDIR", "CHROOT_SOURCE", "IMAGE_NAME", "WORKSPACE_DIR",
     "BUILD_ID", "RPI2_BUILDER_LOCATION", "APT_INCLUDES"}
ClaimedFixedKeys ==
    {"PATH", "BASEDIR", "CHROOT_SOURCE", "IMAGE_NAME", "WORKSPACE_DIR",
     "BUILD_ID", "BUILDER_LOCATION", "APT_INCLUDES"}
ConditionalKeys ==
    {"ENABLE_ROOT", "PASSWORD", "RPI_MODEL", "ENABLE_USER", "USER_NAME",
     "USER_PASSWORD"}
AllowListClaimed ==
    {"HOSTNAME", "DEFLOCAL", "TIMEZONE", "ENABLE_REDUCE", "REDUCE_APT",
     "REDUCE_DOC", "REDUCE_MAN", "REDUCE_VIM", "REDUCE_BASH", "REDUCE_HWDB",
     "REDUCE_SSHD", "REDUCE_LOCALE"}

\* C11: every allow-listed key of the configuration is in the builder's
\* environment with the caller's value; a key outside the allow-list is in
\* the environment only as a fixed or conditional key, never with a value of
\* the configuration.
C11_ConfigurationFiltered ==
    Executed =>
        /\ \A k \in DOMAIN configuration :
              k \in AllowListClaimed =>
                  (k \in DOMAIN env /\ env[k] = configuration[k])
        /\ \A k \in DOMAIN env :
              k \notin AllowListClaimed =>
                  /\ k \in CodeFixedKeys \cup ConditionalKeys
                  /\ env[k] \notin CfgValues

\* A configuration with an allow-listed key, a foreign key and keys that
\* collide with a fixed and with a conditional key has been applied.
C11_Witness ==
    /\ Executed
    /\ {"HOSTNAME", "EVIL_KEY", "PATH", "USER_NAME"} \subseteq DOMAIN configuration
    /\ Len(users) > 0
    /\ env["HOSTNAME"] = configuration["HOSTNAME"]
    /\ "EVIL_KEY" \notin DOMAIN env
    /\ env["PATH"] = OsPath
    /\ env["USER_NAME"] = users[1].username

\* C12: with a non-empty users list the environment has ENABLE_USER=true and
\* the first entry's username and password, and no username or password of
\* a later, different entry; with an empty list it has none of the three keys.
C12_FirstUserOnly ==
    Executed =>
        IF Len(users) > 0
        THEN /\ {"ENABLE_USER", "USER_NAME", "USER_PASSWORD"} \subseteq DOMAIN env
             /\ env["ENABLE_USER"] = "true"
             /\ env["USER_NAME"] = users[1].username
             /\ env["USER_PASSWORD"] = users[1].password
             /\ \A i \in 2..Len(users) :
                   users[i] # users[1] =>
                       \A k \in DOMAIN env :
                           env[k] \notin {users[i].username, users[i].password}
        ELSE {"ENABLE_USER", "USER_NAME", "USER_PASSWORD"} \cap DOMAIN env = {}

\* The environment has been built from two different users.
C12_Witness ==
    /\ Executed
    /\ Len(users) = 2
    /\ users[1] # users[2]
    /\ env["USER_NAME"] = users[1].username

\* C13 as claimed: the environment has the fixed keys PATH, BASEDIR,
\* CHROOT_SOURCE, IMAGE_NAME, WORKSPACE_DIR, BUILD_ID, BUILDER_LOCATION and
\* APT_INCLUDES, and no key besides fixed, conditional and allow-listed ones.
C13_EnvKeysAsClaimed ==
    Executed =>
        /\ ClaimedFixedKeys \subseteq DOMAIN env
        /\ DOMAIN env \subseteq
              ClaimedFixedKeys \cup ConditionalKeys \cup AllowListClaimed

\* C13 as amended: the same with the key RPI2_BUILDER_LOCATION in the place
\* of BUILDER_LOCATION.
C13_EnvKeys ==
    Executed =>
        /\ CodeFixedKeys \subseteq DOMAIN env
        /\ DOMAIN env \subseteq
              CodeFixedKeys \cup ConditionalKeys \cup AllowListClaimed

\* An environment with every conditional key and a filtered configuration.
C13_Witness ==
    /\ Executed
    /\ ConditionalKeys \subseteq DOMAIN env
    /\ "HOSTNAME" \in DOMAIN env
    /\ "EVIL_KEY" \in DOMAIN configuration
    /\ env["RPI2_BUILDER_LOCATION"] = builder_location

\* What the supervisor has written to the pty master when it returns, for a
\* wait status.
MarkersFor(st) ==
    IF st = 0
    THEN <<BANNER, MAGIC_PHRASE>>
    ELSE <<BANNER, MAGIC_PHRASE, FAILED_LINE>>

\* C14: a missing user does not change the outcome.  The returned code and
\* the pty writes depend on the wait status alone, a missing user never
\* makes build raise, and it only leaves out the record and the notification.
C14_UserLookupNonFatal ==
    /\ pc = "done" => (returned = status /\ ptyw = MarkersFor(status))
    /\ (~userExists /\ pc = "raised") =>
          (rmtreeRes = "failed" \/ (~hasTarget /\ retcode # 0))
    /\ ~userExists => (firmware = 0 /\ emails = <<>>)
    /\ (userExists /\ pc = "done" /\ returned = 0) =>
          (firmware = 1 /\ (emailOn => emails = <<SuccessSubject>>))
    /\ (userExists /\ pc = "done" /\ returned # 0) =>
          (firmware = 0 /\ (emailOn => emails = <<FailureSubject>>))

\* build has returned 0 although the user does not exist.
C14_Witness ==
    /\ pc = "done"
    /\ ~userExists
    /\ returned = 0
    /\ firmware = 0
    /\ emails = <<>>

\* C15: the pty master descriptor is passed at most once, only by a thread
\* whose connect succeeded, and the thread then ends; a failed connect leads
\* to the sleep and the sleep to another connect; and if a consumer
\* eventually listens for good, the descriptor ends up passed exactly once.
C15_SingleUseHandoff ==
    /\ [](fdsSent <= 1)
    /\ [][fdsSent' # fdsSent =>
            (thread = "connected" /\ thread' = "finished" /\ fdsSent' = fdsSent + 1)]_vars
    /\ [][(thread' = "connected" /\ thread # "connected") =>
            (thread = "connecting" /\ listening)]_vars
    /\ [][(thread = "connecting" /\ ~listening /\ thread' # thread) =>
            thread' = "sleeping"]_vars
    /\ [][(thread = "sleeping" /\ thread' # thread) => thread' = "connecting"]_vars
    /\ [][thread = "finished" => thread' = "finished"]_vars
    /\ (<>[]listening) => <>[](thread = "finished" /\ fdsSent = 1)

\* The descriptor has been passed and the thread has ended.
C15_Witness ==
    /\ thread = "finished"
    /\ fdsSent = 1
    /\ pc = "makedirs"

\* C16: the outcome is reported at most once, only after the child has been
\* reaped, and as classified: exit status 0 with an existing user gives one
\* success report and one stored record, a nonzero status gives the failure
\* report, and neither report is made for the other outcome.
C16_ReportAgreesWithOutcome ==
    /\ Len(reports) <= 1
    /\ firmware <= 1
    /\ (reports # <<>> \/ firmware > 0 \/ classified # "NONE") => child = "reaped"
    /\ (pc = "done" /\ term = <<"exit", 0>> /\ userExists) =>
          (reports = <<SuccessSubject>> /\ firmware = 1)
    /\ (pc = "done" /\ term # <<"exit", 0>>) => reports = <<FailureSubject>>
    /\ (InSeq(reports, SuccessSubject) \/ firmware > 0) => term = <<"exit", 0>>
    /\ InSeq(reports, FailureSubject) => term # <<"exit", 0>>

\* A success has been reported once, with its record stored.
C16_Witness ==
    /\ pc = "done"
    /\ term = <<"exit", 0>>
    /\ userExists
    /\ reports = <<SuccessSubject>>
    /\ firmware = 1

\* C17: the banner is written at most once, never after a failed
\* preparation, and before SIGCONT is sent.
C17_BannerOnlyWhenReady ==
    /\ Count(ptyw, BANNER) <= 1
    /\ InSeq(ptyw, BANNER) => (PrepCompleted /\ ~PrepFailed)
    /\ InSeq(sent, SIGCONT) => InSeq(ptyw, BANNER)

\* C18: the release is never lost: once SIGCONT has been sent after a
\* successful preparation the child is past its stop point.
C18_ReleaseNeverLost ==
    (InSeq(sent, SIGCONT) /\ ~PrepFailed) => child \notin {"forked", "stopped"}

\* C19: a target_dir that was there before the job is neither written into
\* nor removed by the job.
C19_PreexistingDirUntouched ==
    [][dir = "preexisting" => (dir' = "preexisting" /\ copied' = copied)]_vars

====
